---- MODULE Spec2Model ----
(***************************************************************************)
(* ironsort: quicksort / quicksort_by (src/lib.rs).                        *)
(*                                                                         *)
(* The recursive function is modelled as a state machine over an explicit  *)
(* call stack.  Every frame is one activation of quicksort_by on the       *)
(* sub-slice vec[base .. base+len) of the caller's slice; left, right and  *)
(* pivot are indices relative to that sub-slice, exactly as in the code.   *)
(***************************************************************************)
EXTENDS Integers, Sequences, FiniteSets

\* Longest slice handed to the sort.
MaxLen == 4
\* Elements are drawn from 0..MaxVal.
MaxVal == 2

Values == 0..MaxVal

Ordering == {"Less", "Equal", "Greater"}

\* x.cmp(y) on integers
NaturalCmp(x, y) == IF x < y THEN "Less" ELSE IF x = y THEN "Equal" ELSE "Greater"

\* Ordering::reverse
Reverse(o) == IF o = "Less" THEN "Greater" ELSE IF o = "Greater" THEN "Less" ELSE "Equal"

\* The comparators a caller passes.  The first four are strict weak orders
\* (byKey and allEqual make distinct elements compare Equal), the others are not.
Comparators ==
    {"natural", "reverse", "byKey", "allEqual",
     "allGreater", "allLess", "cyclic", "greaterIfSame"}

\* cmp(&x, &y) for the comparator named c
Compare(c, x, y) ==
    CASE c = "natural"       -> NaturalCmp(x, y)
      [] c = "reverse"       -> Reverse(NaturalCmp(x, y))
      [] c = "byKey"         -> NaturalCmp(x \div 2, y \div 2)
      [] c = "allEqual"      -> "Equal"
      [] c = "allGreater"    -> "Greater"
      [] c = "allLess"       -> "Less"
      [] c = "cyclic"        -> IF x = y THEN "Equal"
                                ELSE IF (x + 1) % (MaxVal + 1) = y THEN "Less"
                                ELSE IF (y + 1) % (MaxVal + 1) = x THEN "Greater"
                                ELSE NaturalCmp(x, y)
      [] c = "greaterIfSame" -> IF x = y THEN "Greater" ELSE NaturalCmp(x, y)

VARIABLES
    vec,     \* the caller's slice (element i of the code is vec[i+1])
    cmp,     \* the comparator of this call
    stack,   \* the active quicksort_by calls, innermost last
    panic,   \* "none", or the panic that unwound the call
    input,   \* the slice as it was handed to the sort
    ev       \* what the last step did: operation, positions touched, frame range

vars == <<vec, cmp, stack, panic, input, ev>>

\* Placeholder for a local that is not yet bound.
Unset == 0 - 1

\* A fresh activation of quicksort_by on vec[b .. b+n)
Frame(b, n) ==
    [base |-> b, len |-> n, pc |-> "entry", left |-> Unset, right |-> Unset, pv |-> Unset]

Top == stack[Len(stack)]

\* vec[i] of the active call
At(f, i) == vec[f.base + i + 1]

\* a hand-written swap that forgets the temporary: position j keeps its value
Swap_overwrite(v, f, i, j) ==
    [v EXCEPT ![f.base + i + 1] = v[f.base + j + 1]]

\* slice::swap on positions i and j of the active call's sub-slice
Swap(v, f, i, j) ==
    [v EXCEPT ![f.base + i + 1] = v[f.base + j + 1],
              ![f.base + j + 1] = v[f.base + i + 1]]

SetTop(f) == [stack EXCEPT ![Len(stack)] = f]

Pop == SubSeq(stack, 1, Len(stack) - 1)

Event(op, f, idx) ==
    [op |-> op, idx |-> {f.base + i : i \in idx}, lo |-> f.base, hi |-> f.base + f.len]

Running == panic = "none" /\ stack # <<>>

Done == panic = "none" /\ stack = <<>>

SeqsUpTo(n) == UNION {[1..k -> Values] : k \in 0..n}

Init ==
    /\ vec \in SeqsUpTo(MaxLen)
    /\ cmp \in Comparators
    /\ stack = <<Frame(0, Len(vec))>>
    /\ panic = "none"
    /\ input = vec
    /\ ev = [op |-> "call", idx |-> {}, lo |-> 0, hi |-> Len(vec)]

\* if len < 1
IsBaseCase_lt(len) == len < 1

\* if len <= 1
IsBaseCase(len) == len <= 1

\* if len <= 1 { return; }
BaseCase ==
    /\ Running
    /\ Top.pc = "entry"
    /\ IsBaseCase(Top.len)
    /\ stack' = Pop
    /\ ev' = Event("return", Top, {})
    /\ UNCHANGED <<vec, cmp, panic, input>>

\* the index the pivot is taken from
PivotSource(len) == len \div 2

\* let pivot = 0; vec.swap(pivot, len / 2); let mut left = 0; let mut right = len - 1;
Begin ==
    /\ Running
    /\ Top.pc = "entry"
    /\ ~IsBaseCase(Top.len)
    /\ vec' = Swap(vec, Top, 0, PivotSource(Top.len))
    /\ stack' = SetTop([Top EXCEPT !.pc = "outer", !.left = 0,
                                   !.right = Top.len - 1,
                                   !.pv = At(Top, PivotSource(Top.len))])
    /\ ev' = Event("swap", Top, {0, PivotSource(Top.len)})
    /\ UNCHANGED <<cmp, panic, input>>

\* while left < right
OuterTest ==
    /\ Running
    /\ Top.pc = "outer"
    /\ stack' = SetTop([Top EXCEPT !.pc = IF Top.left < Top.right THEN "scanL" ELSE "final"])
    /\ ev' = Event("test", Top, {})
    /\ UNCHANGED <<vec, cmp, panic, input>>

\* left < len && cmp(&vec[left], &vec[pivot]) == Ordering::Less
LeftAdvances_strict(f) == f.left < f.len /\ Compare(cmp, At(f, f.left), At(f, 0)) = "Less"

\* left < len && cmp(&vec[left], &vec[pivot]) != Ordering::Greater
LeftAdvances(f) == f.left < f.len /\ Compare(cmp, At(f, f.left), At(f, 0)) # "Greater"

\* while left < len && cmp(&vec[left], &vec[pivot]) != Greater { left += 1 }
ScanLeft ==
    /\ Running
    /\ Top.pc = "scanL"
    /\ IF LeftAdvances(Top)
       THEN stack' = SetTop([Top EXCEPT !.left = Top.left + 1])
       ELSE stack' = SetTop([Top EXCEPT !.pc = "scanR"])
    /\ ev' = Event(IF Top.left < Top.len THEN "cmp" ELSE "test", Top,
                   IF Top.left < Top.len THEN {Top.left, 0} ELSE {})
    /\ UNCHANGED <<vec, cmp, panic, input>>

\* cmp(&vec[right], &vec[pivot]) != Ordering::Less
RightRetreats_ge(f) == Compare(cmp, At(f, f.right), At(f, 0)) # "Less"

\* cmp(&vec[right], &vec[pivot]) == Ordering::Greater
RightRetreats(f) == Compare(cmp, At(f, f.right), At(f, 0)) = "Greater"

\* while cmp(&vec[right], &vec[pivot]) == Greater { right -= 1 }
\* At right = 0 the decrement underflows usize: a debug build panics on the
\* subtraction, a release build wraps to usize::MAX and panics on vec[right].
ScanRight ==
    /\ Running
    /\ Top.pc = "scanR"
    /\ IF RightRetreats(Top)
       THEN IF Top.right = 0
            THEN /\ panic' \in {"attempt to subtract with overflow", "index out of bounds"}
                 /\ ev' = Event("panic", Top, {Top.right, 0})
                 /\ UNCHANGED stack
            ELSE /\ stack' = SetTop([Top EXCEPT !.right = Top.right - 1])
                 /\ ev' = Event("cmp", Top, {Top.right, 0})
                 /\ UNCHANGED panic
       ELSE /\ stack' = SetTop([Top EXCEPT !.pc = "swapTest"])
            /\ ev' = Event("cmp", Top, {Top.right, 0})
            /\ UNCHANGED panic
    /\ UNCHANGED <<vec, cmp, input>>

\* if left < right { vec.swap(left, right); }
SwapTest ==
    /\ Running
    /\ Top.pc = "swapTest"
    /\ IF Top.left < Top.right
       THEN /\ vec' = Swap(vec, Top, Top.left, Top.right)
            /\ ev' = Event("swap", Top, {Top.left, Top.right})
       ELSE /\ vec' = vec
            /\ ev' = Event("test", Top, {})
    /\ stack' = SetTop([Top EXCEPT !.pc = "outer"])
    /\ UNCHANGED <<cmp, panic, input>>

\* the pivot is left at index 0
FinalSwap_skip ==
    /\ Running
    /\ Top.pc = "final"
    /\ stack' = SetTop([Top EXCEPT !.pc = "recL"])
    /\ ev' = Event("test", Top, {})
    /\ UNCHANGED <<vec, cmp, panic, input>>

\* vec.swap(pivot, right);
FinalSwap ==
    /\ Running
    /\ Top.pc = "final"
    /\ vec' = Swap(vec, Top, 0, Top.right)
    /\ stack' = SetTop([Top EXCEPT !.pc = "recL"])
    /\ ev' = Event("swap", Top, {0, Top.right})
    /\ UNCHANGED <<cmp, panic, input>>

\* &mut vec[0..right-1]
LeftSlice_short(f) == Frame(f.base, IF f.right > 0 THEN f.right - 1 ELSE 0)

\* &mut vec[0..right]
LeftSlice(f) == Frame(f.base, f.right)

\* quicksort_by(&mut vec[0..right], cmp);
RecurseLeft ==
    /\ Running
    /\ Top.pc = "recL"
    /\ stack' = Append(SetTop([Top EXCEPT !.pc = "recR"]), LeftSlice(Top))
    /\ ev' = Event("call", LeftSlice(Top), {})
    /\ UNCHANGED <<vec, cmp, panic, input>>

\* &mut vec[right..]
RightSlice_incl(f) == Frame(f.base + f.right, f.len - f.right)

\* &mut vec[right+2..]
RightSlice_short(f) ==
    Frame(f.base + f.right + 1 + (IF f.right + 2 <= f.len THEN 1 ELSE 0),
          IF f.right + 2 <= f.len THEN f.len - (f.right + 2) ELSE 0)

\* &mut vec[right+1..]
RightSlice(f) == Frame(f.base + f.right + 1, f.len - (f.right + 1))

\* quicksort_by(&mut vec[right+1..], cmp);
RecurseRight ==
    /\ Running
    /\ Top.pc = "recR"
    /\ stack' = Append(SetTop([Top EXCEPT !.pc = "ret"]), RightSlice(Top))
    /\ ev' = Event("call", RightSlice(Top), {})
    /\ UNCHANGED <<vec, cmp, panic, input>>

\* the closing brace of quicksort_by
Return ==
    /\ Running
    /\ Top.pc = "ret"
    /\ stack' = Pop
    /\ ev' = Event("return", Top, {})
    /\ UNCHANGED <<vec, cmp, panic, input>>

Next ==
    \/ BaseCase
    \/ Begin
    \/ OuterTest
    \/ ScanLeft
    \/ ScanRight
    \/ SwapTest
    \/ FinalSwap
    \/ RecurseLeft
    \/ RecurseRight
    \/ Return

Spec == Init /\ [][Next]_vars

\* The call is a single synchronous computation: it keeps executing until it
\* returns or panics.
FairSpec == Spec /\ WF_vars(Next)

(***************************************************************************)
(* Properties                                                              *)
(***************************************************************************)

\* The caller's obligation: the comparator is a strict weak ordering on the values.
IsStrictWeakOrder(c) ==
    /\ \A x \in Values : Compare(c, x, x) = "Equal"
    /\ \A x, y \in Values : Compare(c, x, y) = Reverse(Compare(c, y, x))
    /\ \A x, y, z \in Values :
         /\ (Compare(c, x, y) = "Less" /\ Compare(c, y, z) = "Less")
               => Compare(c, x, z) = "Less"
         /\ (Compare(c, x, y) = "Equal" /\ Compare(c, y, z) = "Equal")
               => Compare(c, x, z) = "Equal"

\* the comparators that meet the obligation
StrictWeakOrders == {c \in Comparators : IsStrictWeakOrder(c)}

\* the number of positions of s holding x
Count(s, x) == Cardinality({i \in 1..Len(s) : s[i] = x})

\* a and b hold the same multiset of elements
IsPermutation(a, b) ==
    /\ Len(a) = Len(b)
    /\ \A x \in Values : Count(a, x) = Count(b, x)

\* no adjacent pair of s compares Greater under c
SortedBy(c, s) == \A i \in 1..(Len(s) - 1) : Compare(c, s[i], s[i + 1]) # "Greater"

\* c calls two elements Equal only when they are the same element
EqualOnlyIfSame(c) == \A x, y \in Values : Compare(c, x, y) = "Equal" => x = y

\* the pcs of the partition loop, from the pivot swap to the final swap
LoopPcs == {"outer", "scanL", "scanR", "swapTest", "final"}

\* C1: with a strict weak ordering, when the sort has returned no adjacent
\* pair of the slice compares Greater.
C1_Ordered == (Done /\ cmp \in StrictWeakOrders) => SortedBy(cmp, vec)

C1_Witness ==
    /\ Done /\ cmp \in StrictWeakOrders /\ cmp = "reverse"
    /\ Len(vec) >= 3 /\ vec # input /\ ~SortedBy(cmp, input)

\* C2: at every point of the sort, for every comparator, the slice is a
\* permutation of the input.
C2_Permutation == IsPermutation(vec, input)

C2_Witness == Done /\ Len(vec) >= 3 /\ vec # input

\* C3: for every comparator, strict weak ordering or not, the sort does not
\* panic, and when it has returned the slice is a permutation of the input.
C3_NoCrash == panic = "none" /\ (Done => IsPermutation(vec, input))

\* C4 as claimed: sorting an already sorted slice leaves every position
\* holding the same element, also when distinct elements compare Equal.
C4_Idempotent ==
    (Done /\ cmp \in StrictWeakOrders /\ SortedBy(cmp, input)) => vec = input

\* C4 amended: sorting an already sorted slice leaves every position holding
\* an element that compares Equal to the one it held before, and the very same
\* element when the comparator calls only identical elements Equal.
C4_IdempotentUpToEqual ==
    (Done /\ cmp \in StrictWeakOrders /\ SortedBy(cmp, input)) =>
        /\ Len(vec) = Len(input)
        /\ \A i \in 1..Len(vec) : Compare(cmp, vec[i], input[i]) = "Equal"
        /\ EqualOnlyIfSame(cmp) => vec = input

C4_Witness ==
    /\ Done /\ cmp \in StrictWeakOrders /\ SortedBy(cmp, input)
    /\ Len(input) >= 3 /\ vec # input

\* every active call works on a slice strictly shorter than its caller's
ChildrenShorter == \A k \in 1..(Len(stack) - 1) : stack[k + 1].len < stack[k].len

\* C5: with a strict weak ordering every recursive call is on a strictly
\* shorter slice and the sort returns.
C5_Terminates ==
    /\ [](cmp \in StrictWeakOrders => ChildrenShorter)
    /\ (cmp \in StrictWeakOrders ~> Done)

C5_Witness == Done /\ cmp \in StrictWeakOrders /\ Len(input) >= 3 /\ ev.hi - ev.lo >= 3

\* C6: a call on a slice of length 0 or 1 returns in its first step: no
\* comparator call, no swap, no recursive call, the slice unchanged.
C6_BaseCase ==
    [][(Running /\ Top.pc = "entry" /\ Top.len <= 1) =>
          /\ vec' = vec
          /\ stack' = Pop
          /\ ev'.op = "return"
          /\ ev'.idx = {}]_vars

C6_Witness == ev.op = "return" /\ ev.hi - ev.lo = 1 /\ Len(input) >= 2

\* C7 as claimed: after the final swap everything left of p compares Less
\* than the pivot, everything right of p Greater or Equal, p holds the pivot.
C7_StrictPartition ==
    (Running /\ Top.pc = "recL" /\ cmp \in StrictWeakOrders) =>
        /\ At(Top, Top.right) = Top.pv
        /\ \A i \in 0..(Top.right - 1) :
              Compare(cmp, At(Top, i), At(Top, Top.right)) = "Less"
        /\ \A i \in (Top.right + 1)..(Top.len - 1) :
              Compare(cmp, At(Top, i), At(Top, Top.right)) \in {"Greater", "Equal"}

\* C7 amended: after the final swap everything left of p compares Less or
\* Equal to the pivot, everything right of p Greater or Equal, p holds the pivot.
C7_Partition ==
    (Running /\ Top.pc = "recL" /\ cmp \in StrictWeakOrders) =>
        /\ At(Top, Top.right) = Top.pv
        /\ \A i \in 0..(Top.right - 1) :
              Compare(cmp, At(Top, i), At(Top, Top.right)) \in {"Less", "Equal"}
        /\ \A i \in (Top.right + 1)..(Top.len - 1) :
              Compare(cmp, At(Top, i), At(Top, Top.right)) \in {"Greater", "Equal"}

C7_Witness ==
    /\ Running /\ Top.pc = "recL" /\ cmp \in StrictWeakOrders
    /\ Top.right >= 1 /\ Top.right + 1 < Top.len
    /\ \E i \in 0..(Top.right - 1) :
          Compare(cmp, At(Top, i), At(Top, Top.right)) = "Equal"

\* the absolute positions of frame f's slice
Range(f) == f.base..(f.base + f.len - 1)

\* the absolute position of frame f's partition index p
PivotPos(f) == f.base + f.right

\* the callee of stack[k] lies wholly left of p while the first recursive call
\* runs and wholly right of p while the second runs, and p still holds the pivot
SiblingRanges ==
    \A k \in 1..(Len(stack) - 1) :
        LET parent == stack[k]
            child == stack[k + 1]
        IN /\ Range(child) \subseteq Range(parent)
           /\ parent.pc = "recR" => \A i \in Range(child) : i < PivotPos(parent)
           /\ parent.pc = "ret" => \A i \in Range(child) : i > PivotPos(parent)
           /\ vec[PivotPos(parent) + 1] = parent.pv

\* C8: the two recursive calls work on [0, p) and [p+1, len): a step of a call
\* touches only positions of its own range and leaves every other position,
\* p and the sibling range included, as it was.
C8_Disjoint ==
    /\ [](SiblingRanges /\ ev.idx \subseteq ev.lo..(ev.hi - 1))
    /\ [][Running =>
            \A i \in 1..Len(vec) : (i - 1) \notin Range(Top) => vec'[i] = vec[i]]_vars

C8_Witness ==
    /\ Len(stack) >= 2
    /\ stack[Len(stack) - 1].pc = "ret"
    /\ stack[Len(stack) - 1].right >= 1
    /\ ev.op = "swap" /\ ev.lo = Top.base /\ Cardinality(ev.idx) = 2
    /\ vec # input

\* C9: with a strict weak ordering and n >= 1 elements, never more than n
\* calls are active at once.
C9_Depth ==
    (cmp \in StrictWeakOrders /\ Len(input) >= 1) => Len(stack) <= Len(input)

C9_Witness ==
    cmp \in StrictWeakOrders /\ Len(input) >= 3 /\ Len(stack) = Len(input)

\* C10: with a strict weak ordering, throughout the partition loop index 0
\* holds the pivot value, an in-loop swap has left >= 1, the cursors stay
\* within 0 <= right <= len-1 and left <= len, every element read lies in the
\* slice, nothing panics, and the loop exits with left = right + 1.
C10_Bounds ==
    cmp \in StrictWeakOrders =>
        /\ panic = "none"
        /\ ev.idx \subseteq ev.lo..(ev.hi - 1)
        /\ (Running /\ Top.pc \in LoopPcs) =>
              /\ At(Top, 0) = Top.pv
              /\ 0 <= Top.right /\ Top.right <= Top.len - 1
              /\ 0 <= Top.left /\ Top.left <= Top.len
              /\ (Top.pc = "swapTest" /\ Top.left < Top.right) => Top.left >= 1
              /\ Top.pc = "final" => Top.left = Top.right + 1

C10_Witness ==
    /\ cmp \in StrictWeakOrders /\ Running /\ Top.pc = "swapTest"
    /\ Top.left < Top.right /\ Top.len >= 3

====
